---- MODULE Spec2Model ----
(***************************************************************************)
(* A model of the three ZNC modules of this repository:                    *)
(*   telegram_first_pm.py, telegram_mentions.py and weather.py.            *)
(*                                                                         *)
(* Text is modelled as a sequence of symbols.  A symbol is either a        *)
(* delimiter the code splits on (";", "=", ",", " "), a letter that has an *)
(* upper and a lower case form, or an indivisible chunk of text such as    *)
(* the key name "bot_token" or the command word "!weather".                *)
(***************************************************************************)
EXTENDS Integers, Sequences, FiniteSets, TLC

(***************************************************************************)
(* Bounds of the model.                                                    *)
(***************************************************************************)
\* PMs delivered per sender during one process lifetime (first_pm)
MaxMsgs == 2
\* longest chat message, in symbols (mentions)
MaxLen == 2
\* events handled by the two interleaved handlers (first_pm, concurrent)
MaxEvents == 3

(***************************************************************************)
(* Python's str and dict operations, as the modules use them.              *)
(***************************************************************************)
\* the value Python calls None, among texts
None == <<"<None>">>

Range(s) == {s[i] : i \in 1..Len(s)}

\* bool(v) is False for None and for the empty string
Falsy(v) == v = None \/ v = <<>>

LowerCh(c) ==
    CASE c = "B" -> "b"
      [] c = "O" -> "o"
      [] c = "T" -> "t"
      [] c = "C" -> "c"
      [] c = "M" -> "m"
      [] OTHER -> c

\* str.lower()
Lower(s) == [i \in 1..Len(s) |-> LowerCh(s[i])]

\* sub in s
Contains(sub, s) ==
    \E i \in 0..(Len(s) - Len(sub)) : SubSeq(s, i + 1, i + Len(sub)) = sub

\* s.startswith(p)
StartsWith(s, p) == Len(s) >= Len(p) /\ SubSeq(s, 1, Len(p)) = p

RECURSIVE Split(_, _)
\* s.split(d): every segment between two d, the empty ones too
Split(s, d) ==
    IF d \notin Range(s)
    THEN <<s>>
    ELSE LET i == CHOOSE k \in 1..Len(s) :
                      s[k] = d /\ \A j \in 1..(k - 1) : s[j] # d
         IN  <<SubSeq(s, 1, i - 1)>> \o Split(SubSeq(s, i + 1, Len(s)), d)

\* filter(None, xs)
FilterNone(xs) == SelectSeq(xs, LAMBDA x : x # <<>>)

\* s.split(): the words between runs of white space
SplitWs(s) == FilterNone(Split(s, " "))

RECURSIVE Join(_, _)
\* d.join(xs)
Join(xs, d) ==
    IF xs = <<>> THEN <<>>
    ELSE IF Len(xs) = 1 THEN xs[1]
    ELSE xs[1] \o <<d>> \o Join(Tail(xs), d)

\* xs[1:]
Rest(xs) == IF xs = <<>> THEN <<>> ELSE Tail(xs)

\* the elements dict() is built from: arg.split("=") for every segment arg
\* of args.split(";") that holds an "="
ArgPairs(args) ==
    LET segs  == SelectSeq(Split(args, ";"), LAMBDA a : "=" \in Range(a))
    IN  [i \in 1..Len(segs) |-> Split(segs[i], "=")]

\* dict(pairs): the mapping from key to value, the last occurrence of a key
\* winning
DictOf(pairs) ==
    [k \in {pairs[i][1] : i \in 1..Len(pairs)} |->
        LET last == CHOOSE i \in 1..Len(pairs) :
                        /\ pairs[i][1] = k
                        /\ \A j \in (i + 1)..Len(pairs) : pairs[j][1] # k
        IN  pairs[last][2]]

\* dict(arg.split("=") for arg in args.split(";") if "=" in arg): dict()
\* raises ValueError on an element that is not a pair, which a segment
\* holding two "=" or more splits into
ParseArgs(args) ==
    LET pairs == ArgPairs(args)
    IN  IF \E i \in 1..Len(pairs) : Len(pairs[i]) # 2
        THEN [raised |-> TRUE, dict |-> <<>>]
        ELSE [raised |-> FALSE, dict |-> DictOf(pairs)]

\* d.get(k, default)
Get(d, k, default) == IF k \in DOMAIN d THEN d[k] ELSE default

(***************************************************************************)
(* The world the modules run in.                                           *)
(***************************************************************************)
\* the networks of the bouncer account; a network module has one instance
\* per network
Networks == {"net1", "net2"}
\* the nicks that send private messages
Senders == {"alice", "bob"}
\* what an outbound HTTP call can do
HttpOutcomes == {"ok", "error"}

\* argument strings an operator may load a Telegram module with
Seg_token == <<"bot_token", "=", "T">>
Seg_token2 == <<"bot_token", "=", "t", "O">>
Seg_chat == <<"chat_id", "=", "C">>
Seg_thread == <<"thread_message_id", "=", "M">>
Seg_noeq == <<"verbose">>
Seg_twoeq == <<"chat_id", "=", "C", "=", "M">>

CanonArgs == Join(<<Seg_token, Seg_chat, Seg_thread>>, ";")

LoadArgs ==
    { CanonArgs,
      Join(<<Seg_token, Seg_chat>>, ";"),
      Join(<<Seg_token, Seg_noeq, Seg_chat>>, ";"),
      Join(<<Seg_token, Seg_chat, Seg_token2>>, ";"),
      Join(<<Seg_token>>, ";"),
      Join(<<Seg_token, Seg_twoeq>>, ";"),
      <<>> }

VARIABLES
    \* telegram_first_pm
    seen_users,     \* the class attribute _seen_users
    fp_inst,        \* per network: the module instance, or its failed load
    fp_handled,     \* per instance and sender: private messages handled
    fp_sent,        \* per instance and sender: notification attempts
    all_delivered,  \* per sender: private messages handled in this process
    all_requests,   \* per sender: the outcome of every notification attempt
    \* telegram_first_pm, were the host to run two handlers at once
    cc_pc,          \* per handler thread: the line of OnPrivMsg it is at
    cc_sender,      \* per handler thread: the sender of its message
    \* telegram_mentions
    mn,             \* the module instance, or its failed load
    mn_last,        \* the last chat message handled and what it sent
    \* weather
    nv_apikey,      \* the NV store's "apikey", None when it holds none
    wx_last         \* the last command or message handled and what it did

fp_vars == <<seen_users, fp_inst, fp_handled, fp_sent, all_delivered,
             all_requests>>
cc_vars == <<cc_pc, cc_sender>>
mn_vars == <<mn, mn_last>>
wx_vars == <<nv_apikey, wx_last>>
vars == <<fp_vars, cc_vars, mn_vars, wx_vars>>

(***************************************************************************)
(* telegram_first_pm                                                       *)
(***************************************************************************)
NoInst == [status |-> "none", args |-> <<>>, bot_token |-> None,
           chat_id |-> None, thread_message_id |-> None]

ZeroCount == [s \in Senders |-> 0]

\* _check_args
fp_check_args(self) == ~Falsy(self.bot_token) /\ ~Falsy(self.chat_id)

\* the instance OnLoad leaves behind: "loaded" when it returned True,
\* "refused" when it returned False, "raised" when an exception left it
fp_OnLoad_result(args) ==
    LET parsed == ParseArgs(args)
        args_dict == parsed.dict
    IN  IF parsed.raised
        THEN [NoInst EXCEPT !.status = "raised", !.args = args]
        ELSE LET self == [status |-> "new", args |-> args,
                          bot_token |-> Get(args_dict, <<"bot_token">>, None),
                          chat_id |-> Get(args_dict, <<"chat_id">>, None),
                          thread_message_id |->
                              Get(args_dict, <<"thread_message_id">>, None)]
             IN  [self EXCEPT !.status =
                      IF fp_check_args(self) THEN "loaded" ELSE "refused"]

\* the host creates an instance for network n and calls OnLoad(args); the
\* class attribute _seen_users is not touched
fp_OnLoad(n, args) ==
    /\ fp_inst[n].status # "loaded"
    /\ fp_inst' = [fp_inst EXCEPT ![n] = fp_OnLoad_result(args)]
    /\ fp_handled' = [fp_handled EXCEPT ![n] = ZeroCount]
    /\ fp_sent' = [fp_sent EXCEPT ![n] = ZeroCount]
    /\ UNCHANGED <<seen_users, all_delivered, all_requests>>
    /\ UNCHANGED <<cc_vars, mn_vars, wx_vars>>

\* the host unloads the instance of network n
fp_Unload(n) ==
    /\ fp_inst[n].status = "loaded"
    /\ fp_inst' = [fp_inst EXCEPT ![n] = NoInst]
    /\ UNCHANGED <<seen_users, fp_handled, fp_sent, all_delivered,
                   all_requests>>
    /\ UNCHANGED <<cc_vars, mn_vars, wx_vars>>

\* a variant that has lost the test of line 68
fp_is_first_always(sender) == TRUE

\* whether OnPrivMsg goes on to send: the sender is not in _seen_users
fp_is_first(sender) == sender \notin seen_users

\* OnPrivMsg and send_telegram_message, run to completion; http is what
\* urlopen does
fp_OnPrivMsg(n, sender, http) ==
    /\ fp_inst[n].status = "loaded"
    /\ all_delivered[sender] < MaxMsgs
    /\ all_delivered' = [all_delivered EXCEPT ![sender] = @ + 1]
    /\ fp_handled' = [fp_handled EXCEPT ![n][sender] = @ + 1]
    /\ IF ~fp_check_args(fp_inst[n])
       THEN UNCHANGED <<seen_users, fp_sent, all_requests>>
       ELSE IF ~fp_is_first(sender)
       THEN UNCHANGED <<seen_users, fp_sent, all_requests>>
       ELSE /\ seen_users' = seen_users \cup {sender}
            /\ fp_sent' = [fp_sent EXCEPT ![n][sender] = @ + 1]
            /\ all_requests' =
                   [all_requests EXCEPT ![sender] = Append(@, http)]
    /\ UNCHANGED fp_inst
    /\ UNCHANGED <<cc_vars, mn_vars, wx_vars>>

(***************************************************************************)
(* OnPrivMsg of telegram_first_pm line by line, for a host that runs two   *)
(* handlers of one instance at once.  The instance is that of network      *)
(* CcNet; the membership test of line 68 and the add of line 71 are one    *)
(* step each.                                                              *)
(***************************************************************************)
Threads == {"t1", "t2"}
CcNet == "net1"

\* the events the handlers have taken so far
CcEvents == all_delivered["alice"] + all_delivered["bob"]

\* lines 62-66: the host hands a private message of sender to thread t
cc_Enter(t, sender) ==
    /\ cc_pc[t] = "idle"
    /\ fp_inst[CcNet].status = "loaded"
    /\ CcEvents < MaxEvents
    /\ all_delivered' = [all_delivered EXCEPT ![sender] = @ + 1]
    /\ fp_handled' = [fp_handled EXCEPT ![CcNet][sender] = @ + 1]
    /\ cc_sender' = [cc_sender EXCEPT ![t] = sender]
    /\ cc_pc' = [cc_pc EXCEPT ![t] =
                    IF fp_check_args(fp_inst[CcNet]) THEN "test" ELSE "idle"]
    /\ UNCHANGED <<seen_users, fp_inst, fp_sent, all_requests, mn_vars, wx_vars>>

\* lines 68-69: if sender in self._seen_users: return
cc_Test(t) ==
    /\ cc_pc[t] = "test"
    /\ cc_pc' = [cc_pc EXCEPT ![t] =
                    IF fp_is_first(cc_sender[t]) THEN "add" ELSE "idle"]
    /\ UNCHANGED <<fp_vars, cc_sender, mn_vars, wx_vars>>

\* line 71: self._seen_users.add(sender)
cc_Add(t) ==
    /\ cc_pc[t] = "add"
    /\ seen_users' = seen_users \cup {cc_sender[t]}
    /\ cc_pc' = [cc_pc EXCEPT ![t] = "send"]
    /\ UNCHANGED <<fp_inst, fp_handled, fp_sent, all_delivered, all_requests,
                   cc_sender, mn_vars, wx_vars>>

\* lines 72-74: self.send_telegram_message(nick, message); return
cc_Send(t, http) ==
    /\ cc_pc[t] = "send"
    /\ fp_sent' = [fp_sent EXCEPT ![CcNet][cc_sender[t]] = @ + 1]
    /\ all_requests' =
           [all_requests EXCEPT ![cc_sender[t]] = Append(@, http)]
    /\ cc_pc' = [cc_pc EXCEPT ![t] = "idle"]
    /\ UNCHANGED <<seen_users, fp_inst, fp_handled, all_delivered, cc_sender,
                   mn_vars, wx_vars>>

CcIdle ==
    /\ cc_pc = [t \in Threads |-> "idle"]
    /\ cc_sender = [t \in Threads |-> "alice"]

\* the instance of CcNet has been loaded and has handled nothing yet
CcInit ==
    /\ seen_users = {}
    /\ fp_inst = [n \in Networks |->
                    IF n = CcNet THEN fp_OnLoad_result(CanonArgs) ELSE NoInst]
    /\ fp_handled = [n \in Networks |-> ZeroCount]
    /\ fp_sent = [n \in Networks |-> ZeroCount]
    /\ all_delivered = ZeroCount
    /\ all_requests = [s \in Senders |-> <<>>]
    /\ CcIdle

CcNext ==
    \/ \E t \in Threads, s \in Senders : cc_Enter(t, s)
    \/ \E t \in Threads : cc_Test(t)
    \/ \E t \in Threads : cc_Add(t)
    \/ \E t \in Threads, http \in HttpOutcomes : cc_Send(t, http)

FpInit ==
    /\ seen_users = {}
    /\ fp_inst = [n \in Networks |-> NoInst]
    /\ fp_handled = [n \in Networks |-> ZeroCount]
    /\ fp_sent = [n \in Networks |-> ZeroCount]
    /\ all_delivered = ZeroCount
    /\ all_requests = [s \in Senders |-> <<>>]

FpNext ==
    \/ \E n \in Networks, args \in LoadArgs : fp_OnLoad(n, args)
    \/ \E n \in Networks : fp_Unload(n)
    \/ \E n \in Networks, s \in Senders, http \in HttpOutcomes :
           fp_OnPrivMsg(n, s, http)

(***************************************************************************)
(* telegram_mentions                                                       *)
(***************************************************************************)
\* the configuration constants of telegram_mentions.py
CHANNEL_TEMPLATE == <<"{sender} @ {network_name}/{channel_name}: {message}">>
PRIVATE_TEMPLATE == <<"{sender} @ {network_name}: {message}">>
CASE_SENSITIVE == FALSE

\* the nick of the bouncer account: GetNetwork().GetUser().GetNick()
OwnNicks == {<<"B", "o">>, <<"x">>}

Seg_mentions == <<"mentions", "=", "B", ",", "o", "x">>
Seg_mentions_empty == <<"mentions", "=">>
Seg_mentions_commas == <<"mentions", "=", ",", ",">>

MnLoadArgs ==
    { Join(<<Seg_token, Seg_chat, Seg_mentions>>, ";"),
      Join(<<Seg_token, Seg_chat, Seg_mentions, Seg_thread>>, ";"),
      Join(<<Seg_token, Seg_chat>>, ";"),
      Join(<<Seg_token, Seg_chat, Seg_mentions_empty>>, ";"),
      Join(<<Seg_token, Seg_chat, Seg_mentions, Seg_mentions_commas>>, ";"),
      Join(<<Seg_mentions>>, ";"),
      Join(<<Seg_token, Seg_twoeq>>, ";") }

\* the symbols of a chat message
MsgAlphabet == {"b", "B", "o", "x"}

RECURSIVE SeqsUpTo(_, _)
\* the texts over alphabet S of at most n symbols
SeqsUpTo(S, n) ==
    IF n = 0 THEN {<<>>}
    ELSE LET shorter == SeqsUpTo(S, n - 1)
         IN  shorter \cup {Append(t, c) : t \in shorter, c \in S}

Messages == SeqsUpTo(MsgAlphabet, MaxLen)

MnNoInst == [status |-> "none", args |-> <<>>, nick |-> <<>>,
             bot_token |-> None, chat_id |-> None, mentions |-> <<>>,
             thread_message_id |-> None]

MnNoMsg == [kind |-> "none", text |-> <<>>, requests |-> <<>>]

\* _check_args
mn_check_args(self) == ~Falsy(self.bot_token) /\ ~Falsy(self.chat_id)

\* a variant that lower-cases the nick as it does the arguments
mn_default_mentions_lower(nick) == <<Lower(nick)>>

\* the mention list OnLoad falls back to
mn_default_mentions(nick) == <<nick>>

\* the instance OnLoad leaves behind: "loaded" when it returned True,
\* "refused" when it returned False, "raised" when an exception left it
mn_OnLoad_result(args, nick) ==
    LET lowered == IF ~CASE_SENSITIVE THEN Lower(args) ELSE args
        parsed == ParseArgs(lowered)
        args_dict == parsed.dict
        listed == FilterNone(Split(Get(args_dict, <<"mentions">>, <<>>), ","))
    IN  IF parsed.raised
        THEN [MnNoInst EXCEPT !.status = "raised", !.args = args,
                              !.nick = nick]
        ELSE LET self == [status |-> "new", args |-> args, nick |-> nick,
                          bot_token |-> Get(args_dict, <<"bot_token">>, None),
                          chat_id |-> Get(args_dict, <<"chat_id">>, None),
                          mentions |-> IF listed = <<>>
                                       THEN mn_default_mentions(nick)
                                       ELSE listed,
                          thread_message_id |->
                              Get(args_dict, <<"thread_message_id">>, None)]
             IN  [self EXCEPT !.status =
                      IF mn_check_args(self) THEN "loaded" ELSE "refused"]

mn_OnLoad(args, nick) ==
    /\ mn.status # "loaded"
    /\ mn' = mn_OnLoad_result(args, nick)
    /\ mn_last' = MnNoMsg
    /\ UNCHANGED <<fp_vars, cc_vars, wx_vars>>

\* the host unloads the module
mn_Unload ==
    /\ mn.status = "loaded"
    /\ mn' = MnNoInst
    /\ mn_last' = MnNoMsg
    /\ UNCHANGED <<fp_vars, cc_vars, wx_vars>>

\* send_telegram_message: the request made, with what urlopen did
mn_send_telegram_message(self, channel, http) ==
    [template |-> IF channel # None THEN CHANNEL_TEMPLATE ELSE PRIVATE_TEMPLATE,
     thread |-> ~Falsy(self.thread_message_id),
     http |-> http]

\* the loop of OnChanMsg: whether some mention is in msg_text
mn_chan_match(self, text) ==
    LET msg_text == IF CASE_SENSITIVE THEN text ELSE Lower(text)
    IN  \E i \in 1..Len(self.mentions) : Contains(self.mentions[i], msg_text)

\* the loop of OnPrivMsg: it runs over the characters of msg_text and tests
\* each against message.s
mn_priv_match(self, text) ==
    LET msg_text == IF CASE_SENSITIVE THEN text ELSE Lower(text)
    IN  \E i \in 1..Len(msg_text) : Contains(<<msg_text[i]>>, text)

mn_OnChanMsg(text, http) ==
    /\ mn.status = "loaded"
    /\ mn_last' =
         [kind |-> "chan", text |-> text,
          requests |->
            IF Falsy(CHANNEL_TEMPLATE) THEN <<>>
            ELSE IF ~mn_check_args(mn) THEN <<>>
            ELSE IF mn_chan_match(mn, text)
                 THEN <<mn_send_telegram_message(mn, <<"#chan">>, http)>>
                 ELSE <<>>]
    /\ UNCHANGED <<mn, fp_vars, cc_vars, wx_vars>>

mn_OnPrivMsg(text, http) ==
    /\ mn.status = "loaded"
    /\ mn_last' =
         [kind |-> "priv", text |-> text,
          requests |->
            IF Falsy(PRIVATE_TEMPLATE) THEN <<>>
            ELSE IF ~mn_check_args(mn) THEN <<>>
            ELSE IF mn_priv_match(mn, text)
                 THEN <<mn_send_telegram_message(mn, None, http)>>
                 ELSE <<>>]
    /\ UNCHANGED <<mn, fp_vars, cc_vars, wx_vars>>

MnInit ==
    /\ mn = MnNoInst
    /\ mn_last = MnNoMsg

MnNext ==
    \/ \E args \in MnLoadArgs, nick \in OwnNicks : mn_OnLoad(args, nick)
    \/ mn_Unload
    \/ \E text \in Messages, http \in HttpOutcomes : mn_OnChanMsg(text, http)
    \/ \E text \in Messages, http \in HttpOutcomes : mn_OnPrivMsg(text, http)

(***************************************************************************)
(* weather                                                                 *)
(***************************************************************************)
\* the configuration constant of weather.py
DEBUG == FALSE

\* what the host tells a handler's return value apart as
CONTINUE == "CONTINUE"
HALT == "HALT"
NoReturn == "None"

\* the replies of weather.py
TXT_removed == <<"API key removed.">>
TXT_setkey_usage == <<"Usage: setkey <APIKEY>">>
TXT_set == <<"API key set successfully.">>
TXT_weather_usage == <<"Usage: weather <LOCATION>">>
TXT_inline_usage == <<"Usage: !weather <LOCATION>">>
TXT_not_set_up == <<"!weather is not set up.">>
TXT_no_key ==
    <<"API key is not set. Use 'setkey' command to set it. You can get an API key from https://openweathermap.org/.">>
TXT_weather == <<"Weather in {location}, {country}: {weather}, {temp}C">>
TXT_invalid == <<"Invalid Location.">>
TXT_not_found == <<"Location not found.">>
TXT_failed == <<"Could not fetch weather data">>

\* what urlopen and the decoding of its response can do: a weather report,
\* http.client.InvalidURL, HTTPError 404, HTTPError 500, an unreachable
\* server, a body that is not the JSON expected
Responses == {"200", "InvalidURL", "404", "500", "URLError", "KeyError"}

\* the lines of the setkey and weather commands, and the chat messages
SetkeyLines ==
    { <<"setkey">>,
      <<"setkey", " ">>,
      <<"setkey", " ", "A", "1">>,
      <<" ", "setkey", " ", " ", "k", "&", " ", "A", "1", " ">>,
      <<"setkey", " ", "B">> }

WeatherLines ==
    { <<"weather">>,
      <<"weather", " ", "Bern">>,
      <<"weather", " ", "New", " ", " ", "York", " ">> }

WxMessages ==
    { <<"hello">>,
      <<"!weather">>,
      <<"!weather", " ", "Bern">>,
      <<"!weather", "s", " ", "New", " ", "York">> }

Channels == {<<"#chan">>}
Nicks == {<<"alice">>}

\* str.strip()
Strip(s) ==
    LET keep == {i \in 1..Len(s) : s[i] # " "}
    IN  IF keep = {} THEN <<>>
        ELSE SubSeq(s, CHOOSE i \in keep : \A j \in keep : i <= j,
                       CHOOSE i \in keep : \A j \in keep : i >= j)

QuoteCh(c) ==
    CASE c = "&" -> "%26"
      [] c = " " -> "%20"
      [] OTHER -> c

\* urllib.parse.quote
Quote(s) == [i \in 1..Len(s) |-> QuoteCh(s[i])]

\* HasNV("apikey") and GetNV("apikey"): the host returns the empty string
\* for a key the store does not hold
HasNV(nv) == nv # None
GetNV(nv) == IF nv = None THEN <<>> ELSE nv

\* PutModule, PutIRC and PutUser, as the lines they write
PutModule(message) ==
    [via |-> "PutModule", target |-> None, text |-> message, action |-> FALSE]

Privmsg(via, target, message, action) ==
    [via |-> via, target |-> target, text |-> message, action |-> action]

\* Log
Log(message) == IF DEBUG THEN <<PutModule(message)>> ELSE <<>>

\* Put: the lines it writes
Put(message, target, action, broadcast, mirror) ==
    IF Falsy(target)
    THEN Log(<<"PutModule: ">> \o message) \o <<PutModule(message)>>
    ELSE Log(<<"Put: ">> \o message)
         \o (IF broadcast THEN <<Privmsg("PutIRC", target, message, action)>>
             ELSE <<>>)
         \o (IF mirror THEN <<Privmsg("PutUser", target, message, action)>>
             ELSE <<>>)

\* Action
Action(message, target, broadcast, mirror) ==
    Put(message, target, TRUE, broadcast, mirror)

\* what a handler's body did: whether it raised, what it returned, the
\* lines it wrote, the HTTP requests it made, the NV value it left, the
\* location it looked up
Body(raised, ret, out, http, nv, location) ==
    [raised |-> raised, ret |-> ret, out |-> out, http |-> http, nv |-> nv,
     location |-> location]

\* a variant that has lost the test for a missing key
wx_key_missing_never(api_key) == FALSE

\* the test of get_weather for a missing key
wx_key_missing(api_key) == Falsy(api_key)

\* a variant that takes no HTTP error for a 404
wx_is_not_found_never(resp) == FALSE

\* the test of get_weather for HTTP 404
wx_is_not_found(resp) == resp = "404"

\* get_weather: resp is what the request does
get_weather(nv, location, target, resp) ==
    LET api_key == Quote(GetNV(nv))
        q == Quote(location)
        request == [q |-> q, appid |-> api_key, resp |-> resp]
    IN  IF wx_key_missing(api_key)
        THEN Body("none", NoReturn,
                  (IF ~Falsy(target)
                   THEN Action(TXT_not_set_up, target, TRUE, TRUE)
                   ELSE <<>>) \o <<PutModule(TXT_no_key)>>,
                  <<>>, nv, location)
        ELSE Body("none", NoReturn,
                  Log(<<"Fetching weather">>) \o
                  (IF resp = "200"
                   THEN Put(TXT_weather, target, FALSE, TRUE, TRUE)
                   ELSE IF resp = "InvalidURL"
                   THEN Put(TXT_invalid, target, FALSE, TRUE, TRUE)
                   ELSE (IF wx_is_not_found(resp)
                         THEN Action(TXT_not_found, target, TRUE, TRUE)
                         ELSE Put(TXT_failed, target, FALSE, TRUE, TRUE))
                        \o Log(<<"An error occurred">>)),
                  <<request>>, nv, location)

\* the decorator exception_handler around a handler's body: a command
\* binds self.log to the module's Log first; a module has no attribute log,
\* so the except clause raises AttributeError in its turn
exception_handler(is_command, body) ==
    IF body.raised = "none" THEN body
    ELSE IF is_command
    THEN [body EXCEPT !.raised = "none", !.ret = NoReturn,
                      !.out = @ \o Log(<<"An error occurred">>)]
    ELSE [body EXCEPT !.raised = "AttributeError", !.ret = NoReturn]

\* next(filter(None, line.strip().split()[1:]), None)
wx_first_arg(line) ==
    LET words == FilterNone(Rest(SplitWs(Strip(line))))
    IN  IF words = <<>> THEN None ELSE words[1]

\* a variant that never deletes the stored key
SetAPIKeyCmd_nv_keep(api_key, nv) == IF Falsy(api_key) THEN nv ELSE api_key

\* the value SetAPIKeyCmd leaves in the store
SetAPIKeyCmd_nv(api_key, nv) ==
    IF Falsy(api_key) /\ HasNV(nv) THEN None
    ELSE IF Falsy(api_key) THEN nv
    ELSE api_key

\* SetAPIKeyCmd.__call__
SetAPIKeyCmd_body(line, nv) ==
    LET api_key == wx_first_arg(line)
    IN  Body("none", NoReturn,
             IF Falsy(api_key) /\ HasNV(nv) THEN <<PutModule(TXT_removed)>>
             ELSE IF Falsy(api_key) THEN <<PutModule(TXT_setkey_usage)>>
             ELSE <<PutModule(TXT_set)>>,
             <<>>, SetAPIKeyCmd_nv(api_key, nv), None)

\* GetWeatherCmd.__call__
GetWeatherCmd_body(line, nv, resp) ==
    LET location == Join(Rest(SplitWs(Strip(line))), " ")
    IN  IF Falsy(location)
        THEN Body("none", NoReturn,
                  Log(<<"Received command">>) \o
                  <<PutModule(TXT_weather_usage)>>, <<>>, nv, None)
        ELSE LET got == get_weather(nv, location, None, resp)
             IN  [got EXCEPT !.out = Log(<<"Received command">>) \o @]

\* the location of an inline command: " ".join(message.s.split()[1:])
wx_location(text) == Join(Rest(SplitWs(text)), " ")

\* weather.OnChanMsg: Action takes no argument keep_local, so the call of
\* line 120 raises TypeError
weather_OnChanMsg_body(channel_name, text, nv, resp) ==
    IF StartsWith(text, <<"!weather">>)
    THEN IF Falsy(wx_location(text))
         THEN Body("TypeError", NoReturn, Log(<<"Received command">>), <<>>,
                   nv, None)
         ELSE LET got == get_weather(nv, wx_location(text), channel_name, resp)
              IN  [got EXCEPT !.ret = CONTINUE,
                              !.out = Log(<<"Received command">>) \o @]
    ELSE Body("none", CONTINUE, <<>>, <<>>, nv, None)

\* weather.OnPrivMsg
weather_OnPrivMsg_body(nick_name, text, nv, resp) ==
    IF StartsWith(text, <<"!weather">>)
    THEN IF Falsy(wx_location(text))
         THEN Body("none", CONTINUE,
                   Log(<<"Received command">>) \o
                   Action(TXT_inline_usage, nick_name, TRUE, TRUE),
                   <<>>, nv, None)
         ELSE LET got == get_weather(nv, wx_location(text), nick_name, resp)
              IN  [got EXCEPT !.ret = CONTINUE,
                              !.out = Log(<<"Received command">>) \o @]
    ELSE Body("none", CONTINUE, <<>>, <<>>, nv, None)

\* weather.OnUserMsg
weather_OnUserMsg_body(target, text, nv, resp) ==
    IF StartsWith(text, <<"!weather">>)
    THEN IF Falsy(wx_location(text))
         THEN Body("none", HALT,
                   Log(<<"Received command">>) \o
                   Action(TXT_inline_usage, target, FALSE, TRUE),
                   <<>>, nv, None)
         ELSE LET got == get_weather(nv, wx_location(text), target, resp)
              IN  [got EXCEPT !.ret = HALT,
                              !.out = Log(<<"Received command">>) \o
                                      Put(text, target, FALSE, TRUE, TRUE)
                                      \o @]
    ELSE Body("none", NoReturn, <<>>, <<>>, nv, None)

\* what is remembered of the handler that ran last: what it was given, the
\* NV value it found and what it did
WxRecord(handler, text, target, resp, done) ==
    [handler |-> handler, text |-> text, target |-> target,
     before |-> nv_apikey, resp |-> resp, raised |-> done.raised,
     ret |-> done.ret, out |-> done.out, http |-> done.http,
     location |-> done.location]

SetAPIKeyCmd(line) ==
    LET done == exception_handler(TRUE, SetAPIKeyCmd_body(line, nv_apikey))
    IN  /\ nv_apikey' = done.nv
        /\ wx_last' = WxRecord("setkey", line, None, "none", done)
        /\ UNCHANGED <<fp_vars, cc_vars, mn_vars>>

GetWeatherCmd(line, resp) ==
    LET done == exception_handler(TRUE,
                    GetWeatherCmd_body(line, nv_apikey, resp))
    IN  /\ nv_apikey' = done.nv
        /\ wx_last' = WxRecord("weather", line, None, resp, done)
        /\ UNCHANGED <<fp_vars, cc_vars, mn_vars>>

weather_OnChanMsg(channel, text, resp) ==
    LET done == exception_handler(FALSE,
                    weather_OnChanMsg_body(channel, text, nv_apikey, resp))
    IN  /\ nv_apikey' = done.nv
        /\ wx_last' = WxRecord("OnChanMsg", text, channel, resp, done)
        /\ UNCHANGED <<fp_vars, cc_vars, mn_vars>>

weather_OnPrivMsg(nick, text, resp) ==
    LET done == exception_handler(FALSE,
                    weather_OnPrivMsg_body(nick, text, nv_apikey, resp))
    IN  /\ nv_apikey' = done.nv
        /\ wx_last' = WxRecord("OnPrivMsg", text, nick, resp, done)
        /\ UNCHANGED <<fp_vars, cc_vars, mn_vars>>

weather_OnUserMsg(target, text, resp) ==
    LET done == exception_handler(FALSE,
                    weather_OnUserMsg_body(target, text, nv_apikey, resp))
    IN  /\ nv_apikey' = done.nv
        /\ wx_last' = WxRecord("OnUserMsg", text, target, resp, done)
        /\ UNCHANGED <<fp_vars, cc_vars, mn_vars>>

WxInit ==
    /\ nv_apikey = None
    /\ wx_last = [handler |-> "none", text |-> <<>>, target |-> None,
                  before |-> None, resp |-> "none", raised |-> "none",
                  ret |-> NoReturn, out |-> <<>>, http |-> <<>>,
                  location |-> None]

WxNext ==
    \/ \E line \in SetkeyLines : SetAPIKeyCmd(line)
    \/ \E line \in WeatherLines, resp \in Responses : GetWeatherCmd(line, resp)
    \/ \E c \in Channels, text \in WxMessages, resp \in Responses :
           weather_OnChanMsg(c, text, resp)
    \/ \E n \in Nicks, text \in WxMessages, resp \in Responses :
           weather_OnPrivMsg(n, text, resp)
    \/ \E t \in Channels \cup Nicks, text \in WxMessages, resp \in Responses :
           weather_OnUserMsg(t, text, resp)

(***************************************************************************)
(* The specifications.                                                     *)
(***************************************************************************)
Init == FpInit /\ CcIdle /\ MnInit /\ WxInit

\* the instance of telegram_first_pm is loaded, and no handler is running
InitConcurrent == CcInit /\ MnInit /\ WxInit

\* telegram_first_pm: the host runs one handler at a time, to completion
SpecFirstPm == Init /\ [][FpNext]_vars

\* telegram_first_pm: the host runs two handlers at once
SpecFirstPmConcurrent == InitConcurrent /\ [][CcNext]_vars

\* telegram_mentions
SpecMentions == Init /\ [][MnNext]_vars

\* weather
SpecWeather == Init /\ [][WxNext]_vars

(***************************************************************************)
(* The claims.                                                             *)
(***************************************************************************)

\* C1: for every sender S, once a loaded telegram_first_pm module has
\* handled a private message of S, exactly one notification attempt has
\* been made for S in this process, however many messages of S followed
\* and whether or not the attempt's HTTP call succeeded, and S is in the
\* seen set; before the first message of S there is no attempt.
C1_FirstPmNotifiesOnce ==
    \A s \in Senders :
        /\ Len(all_requests[s]) = (IF all_delivered[s] > 0 THEN 1 ELSE 0)
        /\ all_delivered[s] > 0 => s \in seen_users

\* two messages of one sender handled, the only attempt failed, the sender
\* still marked seen
C1_Witness ==
    \E s \in Senders :
        /\ all_delivered[s] >= 2
        /\ all_requests[s] = <<"error">>
        /\ s \in seen_users

\* C10: the seen set belongs to one instance: the set a loaded instance
\* reads holds only senders whose private message this very instance has
\* handled (so it is empty when the instance has just been loaded), and the
\* first private message of a sender that the instance handles is notified
\* by it.
C10_SeenSetPerInstance ==
    \A n \in Networks :
        fp_inst[n].status = "loaded" =>
            /\ \A s \in seen_users : fp_handled[n][s] > 0
            /\ \A s \in Senders : fp_handled[n][s] > 0 => fp_sent[n][s] = 1

\* C6: the argument parser maps every argument string to a mapping without
\* failing: no OnLoad ends in an exception, a segment without "=" is
\* skipped, the last occurrence of a key wins, and
\* bot_token=T;chat_id=C;thread_message_id=M yields exactly T, C and M.
C6_ParserNeverFails ==
    \A n \in Networks :
        LET self == fp_inst[n]
        IN  /\ self.status # "raised"
            /\ self.status \in {"loaded", "refused"} =>
                /\ self.args = CanonArgs =>
                       /\ self.bot_token = <<"T">>
                       /\ self.chat_id = <<"C">>
                       /\ self.thread_message_id = <<"M">>
                /\ self.args = Join(<<Seg_token, Seg_noeq, Seg_chat>>, ";") =>
                       /\ self.bot_token = <<"T">>
                       /\ self.chat_id = <<"C">>
                       /\ self.thread_message_id = None
                /\ self.args = Join(<<Seg_token, Seg_chat, Seg_token2>>, ";") =>
                       self.bot_token = <<"t", "O">>

\* C9: even with two private messages of one sender handled at once, at
\* most one notification is made for that sender.
C9_AtMostOneNotification ==
    \A s \in Senders : Len(all_requests[s]) <= 1

\* C2: a channel or private message handled by a loaded telegram_mentions
\* module is notified exactly when some configured mention is a substring
\* of it, case ignored, and at most once.
C2_NotifiesIffMentioned ==
    mn_last.kind # "none" =>
        Len(mn_last.requests) =
            (IF \E i \in 1..Len(mn.mentions) :
                    Contains(Lower(mn.mentions[i]), Lower(mn_last.text))
             THEN 1 ELSE 0)

\* C7: after an OnLoad of telegram_mentions whose mentions argument is
\* empty or absent, the mention list is exactly the one-element list of
\* the account's own nick.
C7_DefaultMentions ==
    LET given == Get(ParseArgs(Lower(mn.args)).dict, <<"mentions">>, <<>>)
    IN  (mn.status \in {"loaded", "refused"} /\ given = <<>>) =>
            mn.mentions = <<mn.nick>>

\* loaded with mentions= and the nick Bo: the list is [Bo]
C7_Witness ==
    /\ mn.status = "loaded"
    /\ mn.args = Join(<<Seg_token, Seg_chat, Seg_mentions_empty>>, ";")
    /\ mn.nick = <<"B", "o">>
    /\ mn.mentions = <<mn.nick>>

\* C8: no exception leaves a handler of any of the three modules.
C8_NoExceptionEscapes ==
    /\ wx_last.raised = "none"
    /\ mn.status # "raised"
    /\ \A n \in Networks : fp_inst[n].status # "raised"

\* urllib.parse.unquote, what the weather service reads an appid with
UnquoteCh(c) ==
    CASE c = "%26" -> "&"
      [] c = "%20" -> " "
      [] OTHER -> c

Lookups == {"weather", "OnChanMsg", "OnPrivMsg", "OnUserMsg"}

\* C3: setkey with an empty key deletes a stored key; with an empty key
\* and none stored it changes nothing and reports usage; setkey K stores K;
\* a weather lookup leaves the store alone, and with a key stored it makes
\* one request, whose appid is the stored key.
C3_SetkeyAndLookup ==
    LET key == wx_first_arg(wx_last.text)
    IN  /\ wx_last.handler = "setkey" =>
            /\ (Falsy(key) /\ wx_last.before # None) => nv_apikey = None
            /\ (Falsy(key) /\ wx_last.before = None) =>
                   /\ nv_apikey = None
                   /\ wx_last.out = <<PutModule(TXT_setkey_usage)>>
            /\ ~Falsy(key) => nv_apikey = key
        /\ wx_last.handler \in Lookups =>
            /\ nv_apikey = wx_last.before
            /\ (wx_last.location # None /\ nv_apikey # None) =>
                   Len(wx_last.http) = 1
            /\ \A i \in 1..Len(wx_last.http) :
                   [j \in 1..Len(wx_last.http[i].appid) |->
                        UnquoteCh(wx_last.http[i].appid[j])] = nv_apikey

\* a channel lookup made with the key k& stored
C3_Witness ==
    /\ wx_last.handler = "OnChanMsg"
    /\ Len(wx_last.http) = 1
    /\ nv_apikey = <<"k", "&">>

\* C4: a lookup made with no key stored makes no HTTP request, writes the
\* "API key is not set" message to the console, sends the "not set up"
\* reply to the target exactly when there is one, and leaves the store
\* unchanged.
C4_NoKeyNoRequest ==
    (wx_last.location # None /\ wx_last.before = None) =>
        /\ wx_last.http = <<>>
        /\ \E i \in 1..Len(wx_last.out) : wx_last.out[i] = PutModule(TXT_no_key)
        /\ wx_last.target # None <=>
               \E i \in 1..Len(wx_last.out) :
                   /\ wx_last.out[i].text = TXT_not_set_up
                   /\ wx_last.out[i].via \in {"PutIRC", "PutUser"}
        /\ \A i \in 1..Len(wx_last.out) :
               wx_last.out[i].text = TXT_not_set_up =>
                   wx_last.out[i].target = wx_last.target
        /\ nv_apikey = wx_last.before

\* a private !weather message looked up with no key stored
C4_Witness ==
    /\ wx_last.handler = "OnPrivMsg"
    /\ wx_last.location # None
    /\ wx_last.before = None
    /\ wx_last.target # None

\* C5: a lookup whose request is answered 404 replies "Location not
\* found." to the target, or to the console when there is none, replies
\* nothing else, and no exception leaves the handler.
C5_NotFoundReply ==
    (Len(wx_last.http) = 1 /\ wx_last.http[1].resp = "404") =>
        /\ wx_last.raised = "none"
        /\ \E i \in 1..Len(wx_last.out) :
               /\ wx_last.out[i].text = TXT_not_found
               /\ wx_last.out[i].target = wx_last.target
               /\ wx_last.target = None <=> wx_last.out[i].via = "PutModule"
        /\ \A i \in 1..Len(wx_last.out) :
               \/ /\ wx_last.out[i].text = TXT_not_found
                  /\ wx_last.out[i].target = wx_last.target
               \/ /\ wx_last.handler = "OnUserMsg"
                  /\ wx_last.out[i].text = wx_last.text

\* a channel lookup answered 404
C5_Witness ==
    /\ wx_last.handler = "OnChanMsg"
    /\ Len(wx_last.http) = 1
    /\ wx_last.http[1].resp = "404"

====
